---- MODULE Spec2Model ----
(***************************************************************************)
(* State-machine model of the snake game of src/src/App.tsx (the App       *)
(* component): its React state, its event handlers, the interval that      *)
(* drives moveSnake and the delayed callback of startGame.                 *)
(*                                                                         *)
(* Every handler is one atomic action: the browser runs a handler to       *)
(* completion, React batches the state updates the handler makes, renders, *)
(* and runs the effects whose dependencies changed before the next event   *)
(* is handled.  State-updater functions are run once per update (the       *)
(* production build).                                                      *)
(*                                                                         *)
(* Three specifications share the handlers: Spec is the game in play,      *)
(* its snake of at most MaxLen cells; SpecFood takes the loop of           *)
(* generateFood one sample at a time, for snakes up to the whole grid;     *)
(* SpecQuiet is a game that stops getting input, its timers fair.          *)
(*                                                                         *)
(* Time is counted in units of 50 ms, the greatest common divisor of the   *)
(* two delays of the program (setTimeout 100 ms, setInterval 150 ms).      *)
(* The grid is scaled down from the 25 x 20 cells of the program; the      *)
(* initial snake and food cells keep their relative position in it.        *)
(***************************************************************************)
EXTENDS Integers, Sequences, FiniteSets, TLC

\* ---------------------------------------------------------------- bounds
\* Columns and rows of the model's grid (the program's are 25 and 20).
GridW == 3
GridH == 3
\* Longest snake a game in play grows; a tick that would grow it further is
\* not taken.
MaxLen == 3
\* Most start callbacks pending at one time.
MaxTimeouts == 2

\* ------------------------------------------------------------- constants
\* useState(25), useState(20): the grid the program measures from its canvas.
SourceGridWidth == 25
SourceGridHeight == 20
\* Score added per food eaten.
REWARD == 10
\* setTimeout(..., 100) of startGame and setInterval(moveSnake, 150).
StartDelayMs == 100
TickIntervalMs == 150

RECURSIVE GCD(_, _)
GCD(a, b) == IF b = 0 THEN a ELSE GCD(b, a % b)

\* Milliseconds per unit of model time, and the two delays in units.
MsPerUnit == GCD(StartDelayMs, TickIntervalMs)
START_DELAY == StartDelayMs \div MsPerUnit
TICK_INTERVAL == TickIntervalMs \div MsPerUnit

gridWidth == GridW
gridHeight == GridH

Position == [x : 0..(gridWidth - 1), y : 0..(gridHeight - 1)]
Directions == {"UP", "DOWN", "LEFT", "RIGHT"}
GameStates == {"START", "PLAYING", "PAUSED", "GAME_OVER"}

\* INITIAL_SNAKE = [{x: 10, y: 10}] and INITIAL_FOOD = {x: 15, y: 15} of the
\* 25 x 20 grid, at the same relative position of the model's grid.
INITIAL_SNAKE ==
  <<[x |-> (10 * GridW) \div SourceGridWidth, y |-> (10 * GridH) \div SourceGridHeight]>>
INITIAL_FOOD ==
  [x |-> (15 * GridW) \div SourceGridWidth, y |-> (15 * GridH) \div SourceGridHeight]
INITIAL_DIRECTION == "RIGHT"

VARIABLES
  snake,       \* useState<Position[]>: the body, head first
  food,        \* useState<Position>
  direction,   \* useState<Direction>: the stored direction
  gameState,   \* useState<GameState>
  score,       \* useState(0)
  highScore,   \* useState(parseInt(...))
  stored,      \* localStorage entry 'snakeHighScore'
  gameLoop,    \* the interval of the game-loop effect: {} or {units left}
  timeouts,    \* pending startGame callbacks: units left of each, ascending
  applied,     \* direction the last tick of this game moved by, "NONE" before it
  newRecord,   \* history: a food eaten in this game raised the high score
  sampling,    \* the do-while loop of generateFood is running
  ticks        \* ticks counted since the input ceased, -1 while it may arrive

vars == <<snake, food, direction, gameState, score, highScore, stored,
          gameLoop, timeouts, applied, newRecord, sampling, ticks>>

\* ------------------------------------------------------- the stored score
\* A localStorage entry: absent (getItem returns null) or a text, kept as the
\* sequence of its characters.
Absent == [present |-> FALSE, text |-> <<>>]
Text(t) == [present |-> TRUE, text |-> t]

\* What parseInt returns for a text with no leading integer.
NaN == -1000000

DigitChars == <<"0", "1", "2", "3", "4", "5", "6", "7", "8", "9">>
IsDigit(c) == \E i \in 1..10 : DigitChars[i] = c
DigitVal(c) == (CHOOSE i \in 1..10 : DigitChars[i] = c) - 1

\* The longest prefix of t made of decimal digits.
RECURSIVE DigitPrefix(_)
DigitPrefix(t) ==
  IF t = <<>> \/ ~IsDigit(Head(t)) THEN <<>>
  ELSE <<Head(t)>> \o DigitPrefix(Tail(t))

RECURSIVE DecimalValue(_)
DecimalValue(t) ==
  IF t = <<>> THEN 0
  ELSE 10 * DecimalValue(SubSeq(t, 1, Len(t) - 1)) + DigitVal(t[Len(t)])

RECURSIVE SkipSpaces(_)
SkipSpaces(t) ==
  IF t # <<>> /\ Head(t) = " " THEN SkipSpaces(Tail(t)) ELSE t

\* parseInt(text): leading white space is skipped, an optional sign is read,
\* then the longest run of decimal digits; NaN when there is no digit.
ParseInt(text) ==
  LET t == SkipSpaces(text)
      signed == t # <<>> /\ Head(t) \in {"-", "+"}
      ds == DigitPrefix(IF signed THEN Tail(t) ELSE t)
  IN IF ds = <<>> THEN NaN
     ELSE IF signed /\ Head(t) = "-" THEN 0 - DecimalValue(ds)
     ELSE DecimalValue(ds)

\* newScore.toString() of a non-negative integer.
RECURSIVE toString(_)
toString(n) ==
  IF n < 10 THEN <<DigitChars[n + 1]>>
  ELSE toString(n \div 10) \o <<DigitChars[(n % 10) + 1]>>

\* a > b of JavaScript numbers: false when either side is NaN.
GreaterThan(a, b) == a # NaN /\ b # NaN /\ a > b

\* localStorage.getItem('snakeHighScore') || '0': null and '' are falsy.
GetItemOrZero(entry) ==
  IF entry.present /\ entry.text # <<>> THEN entry.text ELSE <<"0">>

\* The initial value of highScore.
InitialHighScore(entry) == ParseInt(GetItemOrZero(entry))

\* Entries the store may hold when the page loads.
StoredInputs == {Absent, Text(<<"a", "b", "c">>), Text(<<"1", "0">>)}

\* ------------------------------------------------------------ the engine
\* Mutant: the first sample is returned, on the snake or not.
generateFoodUnchecked(currentSnake) == Position

\* The cells generateFood can return: the cells of the grid off the snake.
\* Its loop samples until it draws one of them.
generateFood(currentSnake) ==
  {c \in Position : \A i \in 1..Len(currentSnake) : currentSnake[i] # c}

\* Mutant: only the walls are tested.
checkCollisionWallsOnly(head, body) ==
  head.x < 0 \/ head.x >= gridWidth \/ head.y < 0 \/ head.y >= gridHeight

\* Mutant: the far walls are tested one cell too far out.
checkCollisionOffByOne(head, body) ==
  \/ head.x < 0 \/ head.x > gridWidth \/ head.y < 0 \/ head.y > gridHeight
  \/ \E i \in 1..Len(body) : body[i].x = head.x /\ body[i].y = head.y

\* Mutant: the tail, which a move without food vacates, is not tested.
checkCollisionSparesTail(head, body) ==
  \/ head.x < 0 \/ head.x >= gridWidth \/ head.y < 0 \/ head.y >= gridHeight
  \/ \E i \in 1..(Len(body) - 1) : body[i].x = head.x /\ body[i].y = head.y

checkCollision(head, body) ==
  \/ head.x < 0 \/ head.x >= gridWidth \/ head.y < 0 \/ head.y >= gridHeight
  \/ \E i \in 1..Len(body) : body[i].x = head.x /\ body[i].y = head.y

\* Mutant: RIGHT moves the head by two cells.
MovedHeadLeaps(head, d) ==
  CASE d = "UP" -> [head EXCEPT !.y = @ - 1]
    [] d = "DOWN" -> [head EXCEPT !.y = @ + 1]
    [] d = "LEFT" -> [head EXCEPT !.x = @ - 1]
    [] d = "RIGHT" -> [head EXCEPT !.x = @ + 2]

\* The switch of moveSnake: the head moved one cell in direction d.
MovedHead(head, d) ==
  CASE d = "UP" -> [head EXCEPT !.y = @ - 1]
    [] d = "DOWN" -> [head EXCEPT !.y = @ + 1]
    [] d = "LEFT" -> [head EXCEPT !.x = @ - 1]
    [] d = "RIGHT" -> [head EXCEPT !.x = @ + 1]

\* Mutant: the request is adopted without the test against prev.
DirectionUpdaterUnchecked(prev, requested) ==
  IF requested \in {"UP", "DOWN", "LEFT", "RIGHT"} THEN requested ELSE prev

\* The updater handed to setDirection for a requested direction.
DirectionUpdater(prev, requested) ==
  CASE requested = "UP" -> IF prev # "DOWN" THEN "UP" ELSE prev
    [] requested = "DOWN" -> IF prev # "UP" THEN "DOWN" ELSE prev
    [] requested = "LEFT" -> IF prev # "RIGHT" THEN "LEFT" ELSE prev
    [] requested = "RIGHT" -> IF prev # "LEFT" THEN "RIGHT" ELSE prev
    [] OTHER -> prev

\* The game-loop effect after a render with the given values. It runs when
\* gameState or moveSnake changed, and moveSnake changes with direction, food
\* and highScore: the old interval is cleared and, while PLAYING, a new one
\* is set. `current` is the interval when the effect does not run.
GameLoopEffect(current, gs, dir, fd, hs) ==
  IF <<gs, dir, fd, hs>> = <<gameState, direction, food, highScore>> THEN current
  ELSE IF gs = "PLAYING" THEN {TICK_INTERVAL}
  ELSE {}

Init ==
  /\ snake = INITIAL_SNAKE
  /\ food = INITIAL_FOOD
  /\ direction = INITIAL_DIRECTION
  /\ gameState = "START"
  /\ score = 0
  /\ stored \in StoredInputs
  /\ highScore = InitialHighScore(stored)
  /\ gameLoop = {}
  /\ timeouts = <<>>
  /\ applied = "NONE"
  /\ newRecord = FALSE
  /\ sampling = FALSE
  /\ ticks = -1

\* Mutant: setScore(0) is left out.
ResetStateKeepsScore(newFood) ==
  /\ snake' = INITIAL_SNAKE
  /\ food' = newFood
  /\ direction' = INITIAL_DIRECTION
  /\ applied' = "NONE"
  /\ UNCHANGED score

\* The state resetGame sets, with the food generateFood returned.
ResetState(newFood) ==
  /\ snake' = INITIAL_SNAKE
  /\ food' = newFood
  /\ direction' = INITIAL_DIRECTION
  /\ score' = 0
  /\ applied' = "NONE"

\* Mutant: the high score is cleared with the score.
ResetGameClearsHighScore ==
  /\ \E newFood \in generateFood(INITIAL_SNAKE) :
       /\ ResetState(newFood)
       /\ gameLoop' = GameLoopEffect(gameLoop, "START", INITIAL_DIRECTION, newFood, 0)
  /\ gameState' = "START"
  /\ highScore' = 0
  /\ UNCHANGED <<stored, timeouts>>

\* resetGame, the Reset button.
ResetGame ==
  /\ \E newFood \in generateFood(INITIAL_SNAKE) :
       /\ ResetState(newFood)
       /\ gameLoop' = GameLoopEffect(gameLoop, "START", INITIAL_DIRECTION, newFood, highScore)
  /\ gameState' = "START"
  /\ UNCHANGED <<highScore, stored, timeouts>>

\* The head moveSnake tries, and the tests it makes on it.
NewHead == MovedHead(snake[1], direction)
Fatal == checkCollision(NewHead, snake)
FoodEaten == NewHead.x = food.x /\ NewHead.y = food.y

\* Mutant: the refused move is committed to the snake all the same.
CollideCommitsMove ==
  /\ gameState' = "GAME_OVER"
  /\ gameLoop' = GameLoopEffect({TICK_INTERVAL}, "GAME_OVER", direction, food, highScore)
  /\ snake' = SubSeq(<<NewHead>> \o snake, 1, Len(snake))
  /\ UNCHANGED <<food, score, highScore, stored>>

\* Mutant: the refused move leaves the game in play.
CollideKeepsPlaying ==
  /\ gameLoop' = {TICK_INTERVAL}
  /\ UNCHANGED <<gameState, snake, food, score, highScore, stored>>

\* moveSnake when checkCollision holds: the game is over and the updater
\* returns currentSnake.
Collide ==
  /\ gameState' = "GAME_OVER"
  /\ gameLoop' = GameLoopEffect({TICK_INTERVAL}, "GAME_OVER", direction, food, highScore)
  /\ UNCHANGED <<snake, food, score, highScore, stored>>

\* moveSnake when the new head is on the food: the score updater, the new
\* food, and newSnake returned with its tail.
Eat(newSnake) ==
  /\ LET newScore == score + REWARD
         record == GreaterThan(newScore, highScore)
         newHigh == IF record THEN newScore ELSE highScore
     IN /\ score' = newScore
        /\ highScore' = newHigh
        /\ stored' = IF record THEN Text(toString(newScore)) ELSE stored
        /\ \E newFood \in generateFood(newSnake) :
             /\ food' = newFood
             /\ gameLoop' = GameLoopEffect({TICK_INTERVAL}, gameState, direction, newFood, newHigh)
  /\ snake' = newSnake
  /\ UNCHANGED gameState

\* Mutant: the tail is kept.
PopForgotten(newSnake) ==
  /\ snake' = newSnake
  /\ gameLoop' = {TICK_INTERVAL}
  /\ UNCHANGED <<food, score, highScore, stored, gameState>>

\* moveSnake otherwise: newSnake.pop().
Pop(newSnake) ==
  /\ snake' = SubSeq(newSnake, 1, Len(newSnake) - 1)
  /\ gameLoop' = {TICK_INTERVAL}
  /\ UNCHANGED <<food, score, highScore, stored, gameState>>

\* moveSnake, called by the interval when it falls due.
MoveSnake ==
  /\ gameLoop = {0}
  /\ IF Fatal THEN Collide
     ELSE IF FoodEaten THEN Eat(<<NewHead>> \o snake)
     ELSE Pop(<<NewHead>> \o snake)
  /\ applied' = direction
  /\ UNCHANGED <<direction, timeouts>>

\* e.key.toLowerCase() on the keys the model presses.
Keys == {"ArrowUp", "W", "ArrowDown", "s", "ArrowLeft", "a", "ArrowRight", "d", " ", "x"}
ToLowerCase(key) ==
  CASE key = "ArrowUp" -> "arrowup"
    [] key = "ArrowDown" -> "arrowdown"
    [] key = "ArrowLeft" -> "arrowleft"
    [] key = "ArrowRight" -> "arrowright"
    [] key = "W" -> "w"
    [] OTHER -> key

\* The direction a key requests in the switch of handleKeyPress, "NONE" for
\* the keys that request none.
KeyDirection(k) ==
  CASE k \in {"arrowup", "w"} -> "UP"
    [] k \in {"arrowdown", "s"} -> "DOWN"
    [] k \in {"arrowleft", "a"} -> "LEFT"
    [] k \in {"arrowright", "d"} -> "RIGHT"
    [] OTHER -> "NONE"

\* A direction request or a pause committed: the state both handlers share.
SetDirection(newDirection) ==
  /\ direction' = newDirection
  /\ gameLoop' = GameLoopEffect(gameLoop, gameState, newDirection, food, highScore)
  /\ UNCHANGED <<snake, food, gameState, score, highScore, stored, timeouts, applied>>

SetGameState(gs) ==
  /\ gameState' = gs
  /\ gameLoop' = GameLoopEffect(gameLoop, gs, direction, food, highScore)
  /\ UNCHANGED <<snake, food, direction, score, highScore, stored, applied>>

\* handleKeyPress, the keydown listener.
HandleKeyPress(key) ==
  /\ gameState = "PLAYING"
  /\ LET k == ToLowerCase(key)
     IN IF k = " " THEN SetGameState("PAUSED") /\ UNCHANGED timeouts
        ELSE SetDirection(DirectionUpdater(direction, KeyDirection(k)))

\* Mutant: the touch buttons work in every phase.
HandleTouchInAnyPhase(requested) ==
  SetDirection(DirectionUpdater(direction, requested))

\* handleTouch, the touch buttons.
HandleTouch(requested) ==
  /\ gameState = "PLAYING"
  /\ SetDirection(DirectionUpdater(direction, requested))

\* togglePause, the Pause / Resume button.
TogglePause ==
  /\ gameState \in {"PLAYING", "PAUSED"}
  /\ SetGameState(IF gameState = "PLAYING" THEN "PAUSED" ELSE "PLAYING")
  /\ UNCHANGED timeouts

\* Mutant: a game that is over is started again without resetGame.
StartGameWithoutReset ==
  /\ gameState \in {"START", "GAME_OVER"}
  /\ Len(timeouts) < MaxTimeouts
  /\ gameLoop' = GameLoopEffect(gameLoop, "START", direction, food, highScore)
  /\ gameState' = "START"
  /\ timeouts' = Append(timeouts, START_DELAY)
  /\ UNCHANGED <<snake, food, direction, score, applied, highScore, stored>>

\* startGame, the Start Game / Play Again button.
StartGame ==
  /\ gameState \in {"START", "GAME_OVER"}
  /\ Len(timeouts) < MaxTimeouts
  /\ IF gameState = "GAME_OVER"
     THEN \E newFood \in generateFood(INITIAL_SNAKE) :
            /\ ResetState(newFood)
            /\ gameLoop' = GameLoopEffect(gameLoop, "START", INITIAL_DIRECTION, newFood, highScore)
     ELSE /\ gameLoop' = GameLoopEffect(gameLoop, "START", direction, food, highScore)
          /\ UNCHANGED <<snake, food, direction, score, applied>>
  /\ gameState' = "START"
  /\ timeouts' = Append(timeouts, START_DELAY)
  /\ UNCHANGED <<highScore, stored>>

\* The callback of startGame's setTimeout, when it falls due.
StartCallback ==
  /\ Len(timeouts) > 0
  /\ Head(timeouts) = 0
  /\ timeouts' = Tail(timeouts)
  /\ SetGameState("PLAYING")

RECURSIVE Decremented(_)
Decremented(ts) ==
  IF Len(ts) = 0 THEN <<>> ELSE <<Head(ts) - 1>> \o Decremented(Tail(ts))

\* One unit of time passes; a timer that is due runs first.
Elapse ==
  /\ ~(gameLoop = {} /\ Len(timeouts) = 0)
  /\ 0 \notin gameLoop
  /\ Len(timeouts) > 0 => Head(timeouts) > 0
  /\ gameLoop' = {t - 1 : t \in gameLoop}
  /\ timeouts' = Decremented(timeouts)
  /\ UNCHANGED <<snake, food, direction, gameState, score, highScore, stored, applied>>

\* The "New High Score!" line of the game-over overlay is rendered.
NewHighScoreShown == gameState = "GAME_OVER" /\ score = highScore /\ score > 0

\* The history a step leaves: a game's record flag is cleared when its score
\* is set to 0 and raised by the food that takes the score past the high score.
Observed ==
  newRecord' = IF score' = 0 THEN FALSE
               ELSE newRecord \/ (score' > score /\ GreaterThan(score', highScore))

\* A step of the game in play: generateFood runs to its end within the
\* handler that calls it, and no tick is counted.
InPlay == Observed /\ UNCHANGED <<sampling, ticks>>

\* The model takes no tick that grows the snake past MaxLen.
WithinMaxLen == Len(snake') <= MaxLen

Next ==
  \/ MoveSnake /\ WithinMaxLen /\ InPlay
  \/ (\E key \in Keys : HandleKeyPress(key)) /\ InPlay
  \/ (\E requested \in Directions : HandleTouch(requested)) /\ InPlay
  \/ TogglePause /\ InPlay
  \/ StartGame /\ InPlay
  \/ ResetGame /\ InPlay
  \/ StartCallback /\ InPlay
  \/ Elapse /\ InPlay

Spec == Init /\ [][Next]_vars

\* ------------------------------------------- the loop of generateFood
\* The same game with the do-while loop of generateFood taken one sample at
\* a time, and without its clock and its phases: the snake moves, and grows
\* on food up to the whole grid.  While the loop runs, `food` holds its
\* local newFood, the last sample.
InitFood == Init /\ stored = Absent

Clockless ==
  UNCHANGED <<direction, gameState, score, highScore, stored, gameLoop,
              timeouts, applied, newRecord, ticks>>

\* resetGame calls generateFood(INITIAL_SNAKE).
FoodForReset ==
  /\ ~sampling
  /\ snake' = INITIAL_SNAKE
  /\ sampling' = TRUE
  /\ UNCHANGED food
  /\ Clockless

\* moveSnake moves onto the food and calls generateFood(newSnake).
FoodForGrown(d) ==
  /\ ~sampling
  /\ LET head == MovedHead(snake[1], d)
     IN /\ ~checkCollision(head, snake)
        /\ head = food
        /\ snake' = <<head>> \o snake
  /\ sampling' = TRUE
  /\ UNCHANGED food
  /\ Clockless

\* moveSnake moves on without eating: no food is placed.
MoveOn(d) ==
  /\ ~sampling
  /\ LET head == MovedHead(snake[1], d)
     IN /\ ~checkCollision(head, snake)
        /\ head # food
        /\ snake' = SubSeq(<<head>> \o snake, 1, Len(snake))
  /\ UNCHANGED <<food, sampling>>
  /\ Clockless

\* Mutant: the first sample is returned without the test of the loop.
SampleOnce(c) ==
  /\ sampling
  /\ food' = c
  /\ sampling' = FALSE
  /\ UNCHANGED snake
  /\ Clockless

\* One pass of the do-while loop: cell c is drawn, and the loop goes on
\* while c is on the snake.
Sample(c) ==
  /\ sampling
  /\ food' = c
  /\ sampling' = \E i \in 1..Len(snake) : snake[i].x = c.x /\ snake[i].y = c.y
  /\ UNCHANGED snake
  /\ Clockless

\* A pass that draws a cell off the snake.
SampleFree == \E c \in Position : c \notin {snake[i] : i \in 1..Len(snake)} /\ Sample(c)

NextFood ==
  \/ FoodForReset
  \/ \E d \in Directions : FoodForGrown(d)
  \/ \E d \in Directions : MoveOn(d)
  \/ \E c \in Position : Sample(c)

\* Fair sampling: a loop that goes on for ever draws a free cell, if there
\* is one.
SpecFood == InitFood /\ [][NextFood]_vars /\ WF_vars(SampleFree)

\* ------------------------------------------------ a game left to itself
\* The game played by touch, with a snake that may grow over the whole
\* grid, up to a moment from which no direction, pause, start or reset
\* input arrives: from then on only the timers run, and ticks are counted.
InitQuiet == Init /\ stored = Absent

Playing == ticks = -1 /\ InPlay

\* The last input has been given to a game in play.
Cease ==
  /\ ticks = -1
  /\ gameState = "PLAYING"
  /\ ticks' = 0
  /\ UNCHANGED <<snake, food, direction, gameState, score, highScore, stored,
                 gameLoop, timeouts, applied, newRecord, sampling>>

QuietTick ==
  /\ ticks >= 0
  /\ MoveSnake
  /\ ticks' = ticks + 1
  /\ Observed
  /\ UNCHANGED sampling

QuietCallback ==
  /\ ticks >= 0
  /\ StartCallback
  /\ InPlay

QuietElapse ==
  /\ ticks >= 0
  /\ Elapse
  /\ InPlay

NextQuiet ==
  \/ MoveSnake /\ Playing
  \/ (\E requested \in Directions : HandleTouch(requested)) /\ Playing
  \/ StartGame /\ Playing
  \/ StartCallback /\ Playing
  \/ Elapse /\ Playing
  \/ Cease
  \/ QuietTick
  \/ QuietCallback
  \/ QuietElapse

\* Fair ticks: a timer that is due runs, and time passes.
SpecQuiet ==
  /\ InitQuiet /\ [][NextQuiet]_vars
  /\ WF_vars(QuietTick) /\ WF_vars(QuietCallback) /\ WF_vars(QuietElapse)

TypeOK ==
  /\ snake \in Seq(Position) /\ Len(snake) \in 1..MaxLen
  /\ food \in Position
  /\ direction \in Directions
  /\ gameState \in GameStates
  /\ score \in Nat
  /\ gameLoop \in {{}} \cup {{t} : t \in 0..TICK_INTERVAL}
  /\ Len(timeouts) <= MaxTimeouts
  /\ (gameLoop # {}) <=> (gameState = "PLAYING")

\* ================================================================ claims
Cells(s) == {s[i] : i \in 1..Len(s)}
PairwiseDistinct(s) == \A i, j \in 1..Len(s) : i # j => s[i] # s[j]
InGrid(c) == c.x >= 0 /\ c.x < gridWidth /\ c.y >= 0 /\ c.y < gridHeight

\* C1: a tick taken while PLAYING whose new head is outside the grid or on a
\* body cell makes the phase GAME_OVER and leaves the snake, the food, the
\* score and the high score (state and store) as they were before the tick.
FatalTickFrame ==
  [][(MoveSnake /\ gameState = "PLAYING"
        /\ (~InGrid(NewHead) \/ NewHead \in Cells(snake)))
       => (gameState' = "GAME_OVER"
             /\ snake' = snake /\ food' = food /\ score' = score
             /\ highScore' = highScore /\ stored' = stored)]_vars

\* A length-3 snake heading RIGHT in the right-most column has ended its game.
FatalTickWitness ==
  /\ gameState = "GAME_OVER"
  /\ Len(snake) = 3
  /\ score = 20
  /\ direction = "RIGHT"
  /\ applied = "RIGHT"
  /\ snake[1].x = gridWidth - 1

\* C2: in every reachable state the cells of the snake are pairwise distinct.
SnakeCellsDistinct == PairwiseDistinct(snake)

\* A snake of three cells whose last tick turned its head back onto its own
\* body, and was refused.
SnakeCellsDistinctWitness ==
  /\ Len(snake) = 3
  /\ gameState = "GAME_OVER"
  /\ InGrid(NewHead)
  /\ NewHead \in Cells(snake)

\* C3: in every reachable state the food cell is no cell of the snake.
FoodOffSnake == food \notin Cells(snake)

\* Food placed against a grown snake, right beside its new head.
FoodOffSnakeWitness ==
  /\ Len(snake) = 3
  /\ gameState = "PLAYING"
  /\ food = MovedHead(snake[1], applied)

\* C4: a non-fatal tick grows the snake by one cell if and only if its new
\* head is the food cell of the state before it, and otherwise keeps its
\* length (new head in front, tail removed); no tick shortens the snake.
TickLength ==
  /\ [][(MoveSnake /\ ~Fatal) =>
          /\ (Len(snake') = Len(snake) + 1) <=> (NewHead = food)
          /\ Len(snake') \in {Len(snake), Len(snake) + 1}
          /\ snake'[1] = NewHead
          /\ \A i \in 2..Len(snake') : snake'[i] = snake[i - 1]]_vars
  /\ [][MoveSnake => Len(snake') >= Len(snake)]_vars

\* A grown snake that has since moved on without eating.
TickLengthWitness ==
  /\ Len(snake) = 2
  /\ gameState = "PLAYING"
  /\ food # INITIAL_FOOD
  /\ snake[1] # INITIAL_FOOD
  /\ snake[2] # INITIAL_FOOD

\* C5: the score changes only by +10 on a tick that eats the food and to 0
\* on a reset, and in every reachable state it is 10 x (snake length - 1).
ScoreCountsFood ==
  /\ [](score = 10 * (Len(snake) - 1) /\ score >= 0)
  /\ [][score' # score =>
          \/ MoveSnake /\ ~Fatal /\ NewHead = food /\ score' = score + 10
          \/ (ResetGame \/ (StartGame /\ gameState = "GAME_OVER")) /\ score' = 0]_vars

\* A game that had eaten twice was reset, and the next one has eaten once.
ScoreCountsFoodWitness ==
  /\ highScore = 20
  /\ score = 10
  /\ Len(snake) = 2

Opposite(d) ==
  CASE d = "UP" -> "DOWN"
    [] d = "DOWN" -> "UP"
    [] d = "LEFT" -> "RIGHT"
    [] d = "RIGHT" -> "LEFT"
    [] OTHER -> "NONE"

\* The direction the claim expects stored after a request for d.
Turned(d) == IF d = Opposite(direction) THEN direction ELSE d

\* The direction a key requests, "NONE" for a key that requests none.
Requested(key) == KeyDirection(ToLowerCase(key))

\* C6: a direction request made while PLAYING, by touch or by key, leaves
\* the stored direction unchanged when it is the exact opposite of it, and
\* sets the stored direction to the requested one otherwise.  The first
\* conjunct is the outcome of every request that can be made in a PLAYING
\* state; the second is every step that changes the direction of a game in play.
OppositeRequestRejected ==
  /\ [](gameState = "PLAYING" =>
          /\ \A d \in Directions : DirectionUpdater(direction, d) = Turned(d)
          /\ \A key \in Keys : Requested(key) \in Directions =>
               DirectionUpdater(direction, Requested(key)) = Turned(Requested(key)))
  /\ [][(gameState = "PLAYING" /\ gameState' = "PLAYING" /\ direction' # direction) =>
          /\ \A d \in Directions : HandleTouch(d) => direction' = Turned(d)
          /\ \A key \in Keys : (Requested(key) \in Directions /\ HandleKeyPress(key))
               => direction' = Turned(Requested(key))]_vars

\* A turn was taken since the last tick: DOWN is stored, so that UP is now
\* the opposite request.
OppositeRequestRejectedWitness ==
  /\ gameState = "PLAYING"
  /\ direction = "DOWN"
  /\ applied = "RIGHT"

\* C7: the direction a tick applies is never the exact opposite of the
\* direction the previous tick of the same game applied, so that a snake of
\* two or more cells never tries to move its head onto its second cell.
NoReversalBetweenTicks ==
  [][MoveSnake =>
       /\ applied # "NONE" => direction # Opposite(applied)
       /\ Len(snake) >= 2 => NewHead # snake[2]]_vars

\* The start callback of a start command given in START.
DelayedStart == StartCallback /\ gameState = "START"

\* C8: the phase changes only along the listed transitions and on their
\* triggers; a start command is taken only in START and GAME_OVER.
PhaseTransitionsLegal ==
  /\ [][gameState' # gameState =>
          \/ gameState = "START" /\ gameState' = "PLAYING" /\ DelayedStart
          \/ gameState = "PLAYING" /\ gameState' = "PAUSED"
               /\ (TogglePause \/ \E key \in Keys : HandleKeyPress(key))
          \/ gameState = "PAUSED" /\ gameState' = "PLAYING" /\ TogglePause
          \/ gameState = "PLAYING" /\ gameState' = "GAME_OVER" /\ MoveSnake /\ Fatal
          \/ gameState = "GAME_OVER" /\ gameState' \in {"START", "PLAYING"} /\ StartGame
          \/ gameState' = "START" /\ ResetGame]_vars
  /\ [][StartGame => gameState \in {"START", "GAME_OVER"}]_vars

\* The game as resetGame leaves it.
Fresh ==
  /\ snake = INITIAL_SNAKE
  /\ direction = INITIAL_DIRECTION
  /\ score = 0
  /\ InGrid(food)
  /\ food \notin Cells(snake)

\* C9: the phase enters PLAYING from START or GAME_OVER only with a freshly
\* initialized game, and leaves GAME_OVER only to START through a reset.
StartsFresh ==
  /\ [][(gameState \in {"START", "GAME_OVER"} /\ gameState' = "PLAYING") =>
          (gameState = "START" /\ Fresh /\ Fresh')]_vars
  /\ [][(gameState = "GAME_OVER" /\ gameState' # "GAME_OVER") =>
          (gameState' = "START" /\ Fresh')]_vars

\* A second game is running, untouched yet, after one that ended with a
\* score.
StartsFreshWitness ==
  /\ gameState = "PLAYING"
  /\ highScore = 20
  /\ applied = "NONE"
  /\ snake = INITIAL_SNAKE
  /\ score = 0

\* C10: a reset command, in any phase, leaves phase START, the initial
\* snake and direction, score 0 and a food cell off the snake, and does not
\* change the high score or the stored high score.
ResetRestoresStart ==
  [][ResetGame =>
       /\ gameState' = "START"
       /\ snake' = INITIAL_SNAKE
       /\ direction' = INITIAL_DIRECTION
       /\ score' = 0
       /\ InGrid(food') /\ food' \notin Cells(snake')
       /\ highScore' = highScore
       /\ stored' = stored]_vars

\* Back in START with no start pending after a game that set a record of
\* 20: only the Reset button leads here.
ResetRestoresStartWitness ==
  /\ gameState = "START"
  /\ Len(timeouts) = 0
  /\ highScore = 20
  /\ stored = Text(<<"2", "0">>)
  /\ snake = INITIAL_SNAKE
  /\ score = 0

\* a >= b of JavaScript numbers: false when either side is NaN.
AtLeast(a, b) == a # NaN /\ b # NaN /\ a >= b

Max(a, b) == IF a >= b THEN a ELSE b

\* C11: the high score never decreases and is in every reachable state the
\* largest score seen so far, the value loaded at startup counted: it is at
\* least the score in every state, every step leaves it the larger of
\* its old value and the new score, and each step that changes it writes
\* the new value to the store.
HighScoreIsMaxScore ==
  /\ [](AtLeast(highScore, score))
  /\ [][/\ AtLeast(highScore', highScore)
        /\ highScore' = Max(highScore, score')
        /\ highScore' # highScore => stored' = Text(toString(highScore'))]_vars

\* C12: while the store holds no entry or a text that parses to no integer,
\* the high score is 0, and the first food eaten then makes it 10 and
\* writes 10 to the store.
MalformedStoreLoadsZero ==
  /\ []((~stored.present \/ ParseInt(stored.text) = NaN) => highScore = 0)
  /\ [][(MoveSnake /\ ~Fatal /\ FoodEaten /\ score = 0
          /\ (~stored.present \/ ParseInt(stored.text) = NaN))
         => (highScore' = 10 /\ stored' = Text(toString(10)))]_vars

\* The game a tick advances: snake, food, score and stored direction.
Game == <<snake, food, score, direction>>

\* C13: a tick is taken and a direction request is adopted only while
\* PLAYING; in START, PAUSED and GAME_OVER no step changes the snake, the
\* food, the score or the stored direction but a reset (the Reset button,
\* or the start command that resets a game that is over), so that the step
\* from PAUSED back to PLAYING leaves all four as the pause found them.
IdleGameFrame ==
  /\ [][(gameState # "PLAYING" /\ Game' # Game) =>
          (ResetGame \/ (StartGame /\ gameState = "GAME_OVER"))]_vars
  /\ [][MoveSnake => gameState = "PLAYING"]_vars
  /\ [][(gameState = "PAUSED" /\ gameState' = "PLAYING") => Game' = Game]_vars

\* A grown snake paused with a turn taken since its last tick.
IdleGameFrameWitness ==
  /\ gameState = "PAUSED"
  /\ Len(snake) = 2
  /\ applied = "RIGHT"
  /\ direction = "UP"

Abs(n) == IF n < 0 THEN 0 - n ELSE n
Manhattan(a, b) == Abs(a.x - b.x) + Abs(a.y - b.y)

\* C14: in every reachable state each two consecutive cells of the snake
\* are at Manhattan distance exactly 1.
SnakeContiguous ==
  \A i \in 1..(Len(snake) - 1) : Manhattan(snake[i], snake[i + 1]) = 1

\* A snake of three cells with a bend in it.
SnakeContiguousWitness ==
  /\ Len(snake) = 3
  /\ snake[1].x # snake[3].x
  /\ snake[1].y # snake[3].y

\* C15: a tick ends the game if and only if its new head is outside the
\* grid or is a cell of the snake as it was before the tick, the tail
\* included: a move onto the tail cell ends the game although a move
\* without food would vacate that cell.
FatalIffCollision ==
  /\ [][MoveSnake =>
          ((gameState' = "GAME_OVER") <=> (~InGrid(NewHead) \/ NewHead \in Cells(snake)))]_vars
  /\ [][(MoveSnake /\ NewHead = snake[Len(snake)]) => gameState' = "GAME_OVER"]_vars

\* A game ended by a move onto the tail cell, with the food elsewhere.
FatalIffCollisionWitness ==
  /\ gameState = "GAME_OVER"
  /\ Len(snake) >= 2
  /\ NewHead = snake[Len(snake)]
  /\ ~FoodEaten

\* C16: the new-record line is shown for a game that is over exactly when a
\* food eaten in that game took the score past the high score held before
\* it; a game whose final score only equals a high score of an earlier game
\* shows none.
NewRecordOnlyWhenExceeded ==
  gameState = "GAME_OVER" => (NewHighScoreShown <=> newRecord)

\* A call of generateFood returns: its loop ends.
FoodReturned == sampling /\ ~sampling'

\* C17 as stated: every food placement, for a reset and after every food
\* eaten, ends under fair sampling with a cell of the grid off the snake,
\* also for the snake that has just grown over the whole grid.
FoodPlacementAlwaysEnds ==
  /\ sampling ~> ~sampling
  /\ [][FoodReturned => (InGrid(food') /\ food' \notin Cells(snake'))]_vars

\* C17, amended: a food placement ends under fair sampling, with a cell of
\* the grid off the snake, for every snake that leaves a cell of the grid
\* free; for the snake that has grown over the whole grid it never ends.
FoodPlacementEnds ==
  /\ (sampling /\ generateFood(snake) # {}) ~> ~sampling
  /\ [][FoodReturned => (InGrid(food') /\ food' \in generateFood(snake'))]_vars
  /\ [][(sampling /\ generateFood(snake) = {}) => sampling']_vars

\* Food has been placed in the one cell a grown snake left free.
FoodPlacementEndsWitness ==
  /\ ~sampling
  /\ Len(snake) = gridWidth * gridHeight - 1
  /\ food \notin Cells(snake)

\* C18: while PLAYING the interval ticks once per TICK_INTERVAL whatever the
\* input: a direction change that is adopted leaves the time to the pending
\* tick as it was, and a tick, with or without a food placement, leaves the
\* next tick one whole interval away.
TickNotPostponed ==
  /\ [][(gameState = "PLAYING" /\ gameState' = "PLAYING" /\ direction' # direction)
         => gameLoop' = gameLoop]_vars
  /\ [][(MoveSnake /\ gameState' = "PLAYING") => gameLoop' = {TICK_INTERVAL}]_vars

\* C19: with the grid fixed for the whole run and the initial snake and food
\* inside it, in every reachable state every cell of the snake and the food
\* cell are inside the grid.
AllInsideGrid ==
  (\A i \in 1..Len(INITIAL_SNAKE) : InGrid(INITIAL_SNAKE[i])) /\ InGrid(INITIAL_FOOD)
    => (\A i \in 1..Len(snake) : InGrid(snake[i])) /\ InGrid(food)

\* A grown snake in play with its head in the last column and the first
\* row, and the food on the last row.
AllInsideGridWitness ==
  /\ InGrid(INITIAL_SNAKE[1]) /\ InGrid(INITIAL_FOOD)
  /\ gameState = "PLAYING"
  /\ Len(snake) = 3
  /\ snake[1] = [x |-> gridWidth - 1, y |-> 0]
  /\ food.y = gridHeight - 1

\* The pending tick eats the food in the last free cell of the grid:
\* generateFood is called for a snake that covers the grid.
Filling ==
  /\ gameState = "PLAYING"
  /\ gameLoop = {0}
  /\ ~Fatal
  /\ FoodEaten
  /\ generateFood(<<NewHead>> \o snake) = {}

\* C20 as stated: a game in play that gets no more input reaches GAME_OVER
\* under fair ticks, after at most max(W, H) ticks, food eaten or not.
QuietGameEnds ==
  /\ (ticks >= 0) ~> (gameState = "GAME_OVER")
  /\ [](ticks <= Max(gridWidth, gridHeight))

\* C20, amended: a game in play that gets no more input reaches GAME_OVER
\* under fair ticks, after at most max(W, H) ticks, unless a tick on the
\* way eats the food in the last free cell of the grid; that tick never
\* returns from placing the food, and the game neither moves nor ends.
QuietGameEndsOrFills ==
  /\ (ticks >= 0) ~> (gameState = "GAME_OVER" \/ Filling)
  /\ [](ticks <= Max(gridWidth, gridHeight))
  /\ [][Filling => ~MoveSnake]_vars

\* A game left to itself has eaten on its way and ended at the wall on
\* its last possible tick.
QuietGameEndsOrFillsWitness ==
  /\ gameState = "GAME_OVER"
  /\ ticks = Max(gridWidth, gridHeight)
  /\ Len(snake) >= 3

====
